---- MODULE Spec2Model ----
(***************************************************************************)
(* Resumable PDF ingestion (src/ingestion/pipeline.py, state.py,           *)
(* chunkers.py) as a state machine.  One IngestionPipeline object runs     *)
(* ingest() over a directory of PDF files; the checkpoint file, the        *)
(* vector store (Pinecone) and the document metadata store (Supabase)      *)
(* outlive the process.  Remote calls and the parser may raise, and the    *)
(* process may be killed at any point.                                     *)
(*                                                                         *)
(* Two further specifications share the module: SpecExtract runs the two   *)
(* regular-expression extractors of pipeline.py on texts, and SpecServe    *)
(* runs the application side (src/app/main.py, src/agent/service.py,       *)
(* src/rag/pipeline.py): the agent is built, chat turns call retrieve()    *)
(* concurrently, the Pinecone service comes and goes.                      *)
(***************************************************************************)
EXTENDS Naturals, Integers, Sequences, FiniteSets, TLC

\* ------------------------------------------------------------------ bounds
\* Distinct byte contents a file may have: 0 is not a PDF at all, 1..NumContents
\* are readable PDFs.
NumContents == 3
\* Largest configured batch_size explored.
MaxBatch == 2
\* ingest() runs (process starts) explored per behaviour.
MaxRuns == 2
\* Longest text handed to the extractors, in vocabulary entries.
MaxWords == 3
\* Largest top_k a RetrievalPipeline is built with.
MaxK == 2
\* Rerank scores are 0..MaxScore.
MaxScore == 1
\* retrieve() calls (chat turns) that may be in flight together.
MaxCalls == 2

\* sparse dicts: longest token, most terms
MaxTokenLen == 2

MaxTerms == 2

\* Largest ConversationMemory.window explored.
MaxWindow == 2
\* append() calls explored per behaviour.
MaxAppends == 3

\* ------------------------------------------------------- the file system
\* Path segments in ascending string order; a path compares as pathlib
\* compares, part by part.
Names == <<"dryer", "fridge", "ge", "lg", "m", "n">>

Rank(s) == CHOOSE i \in 1..Len(Names) : Names[i] = s

\* A .pdf file below pdf_root: the directories between the root and the
\* file, and the file name without its suffix.
AllPaths ==
  { [dirs |-> <<"dryer", "ge">>, stem |-> "m"],
    [dirs |-> <<"fridge">>, stem |-> "m"],
    [dirs |-> <<>>, stem |-> "n"] }

Bytes == 0..NumContents

\* pdf_path.name and pdf_path.stem
FileName(p) == <<p.stem, "pdf">>

Stem(name) == name[1]

\* pdf_path.relative_to(pdf_root).parts
Parts(p) == p.dirs \o <<p.stem>>

RECURSIVE LexLess(_, _)
LexLess(a, b) ==
  IF a = <<>> THEN b # <<>>
  ELSE IF b = <<>> THEN FALSE
  ELSE IF Rank(Head(a)) # Rank(Head(b)) THEN Rank(Head(a)) < Rank(Head(b))
  ELSE LexLess(Tail(a), Tail(b))

PathLess(p, q) == LexLess(Parts(p), Parts(q))

RECURSIVE Sorted(_)
Sorted(S) ==
  IF S = {} THEN <<>>
  ELSE LET m == CHOOSE p \in S : \A q \in S \ {p} : PathLess(p, q)
       IN <<m>> \o Sorted(S \ {m})

\* ------------------------------------------------------------ the parser
\* fitz.open raises on bytes that are no PDF.
Corrupt(b) == b = 0

\* Pages of a readable PDF, and the number of chunks the splitter cuts from
\* page p.  Content 1 is a scan: one page without text.
NPages(b) == IF b = 1 THEN 1 ELSE b - 1

SplitCount(b, p) == IF b = 1 THEN 0 ELSE IF p % 2 = 1 THEN 1 ELSE 2

\* chunk_text(page): the chunks of one page, in split order.
ChunkText(b, p) == [k \in 1..SplitCount(b, p) |-> <<b, p, k>>]

\* page.get_text for every page, in page order.
TextPages(b) == [p \in 1..NPages(b) |-> p]

\* The pages' chunks joined last page first.
RECURSIVE ChunkPagesReversed(_, _)
ChunkPagesReversed(b, pages) ==
  IF pages = <<>> THEN <<>>
  ELSE ChunkPagesReversed(b, Tail(pages)) \o ChunkText(b, Head(pages))

RECURSIVE ChunkPages(_, _)
ChunkPages(b, pages) ==
  IF pages = <<>> THEN <<>>
  ELSE ChunkText(b, Head(pages)) \o ChunkPages(b, Tail(pages))

chunk_iterable(b) == ChunkPages(b, TextPages(b))

\* len(page.get_images()): page p carries p embedded images.
Images(b, p) == p

NoPath == "None"

\* _export_image: the path of the saved PNG, or None when fitz raised.
export_image(doc_id, page, img, saved) ==
  IF saved THEN <<doc_id, "p", page, img, "png">> ELSE NoPath

\* A descriptor for every image when an analyzer is configured.
DescribedAlways(image_path, analyzer) == analyzer

\* if image_path and self.components.vision_analyzer
Described(image_path, analyzer) == image_path # NoPath /\ analyzer

\* One element of image_metadata.
Descriptor(doc_id, page, image_path) ==
  [ document_id |-> doc_id, page_number |-> page, image_path |-> image_path,
    analysis |-> <<"description", image_path>> ]

\* ---------------------------------------------------------- the checkpoint
\* hashlib.sha256 of the bytes: one digest per content.
Digest(b) == <<"sha256", b>>

\* A digest of the file's name instead of its bytes.
PathDigestByName(p, b) == Digest(Rank(p.stem))

\* _digest(path): the hash of everything read from the file at p, which
\* holds the bytes b.
PathDigest(p, b) == Digest(b)

EmptyMap == [d \in {} |-> 0]

\* The checkpoint file: absent, emptied by an interrupted write_text, or
\* the JSON text of a map.
NoFile == [kind |-> "absent"]

Torn == [kind |-> "torn"]

Dumps(st) == [kind |-> "json", data |-> st]

\* A load that ignores the file.
LoadIgnoresFile(f) == EmptyMap

\* StateTracker.load: {} when the file does not exist.
Load(f) == IF f.kind = "json" THEN f.data ELSE EmptyMap

\* self.state.state.get(digest, {}).get("status")
StatusOf(st, d) == IF d \in DOMAIN st THEN st[d].status ELSE "none"

\* self.state[digest] = {"status": status, **meta}
Put(st, d, status, name) ==
  [k \in DOMAIN st \cup {d} |->
     IF k = d THEN [status |-> status, filename |-> name] ELSE st[k]]

\* StateTracker.persist: the file after write_text returned.
Persist(st) == Dumps(st)

\* A mark that writes the file before it assigns the entry.
MarkPersistFirst(st, d, status, name) ==
  [state |-> Put(st, d, status, name), file |-> Persist(st)]

\* StateTracker.mark: assign the entry, then rewrite the whole file.
Mark(st, d, status, name) ==
  LET new == Put(st, d, status, name)
  IN [state |-> new, file |-> Persist(new)]

\* A first mark that already says `completed`.
InFlightStatusCompleted == "completed"

\* A first mark with a status outside the three the controller writes.
InFlightStatusPending == "pending"

\* The status ingest() writes before it calls _process_pdf.
InFlightStatus == "processing"

\* A status check that never skips.
ShouldSkipNever(status) == FALSE

\* A status check that also skips a document left in flight.
ShouldSkipInFlight(status) == status \in {"completed", "processing"}

\* if status == "completed": continue
ShouldSkip(status) == status = "completed"

\* ------------------------------------------------------------ extraction
\* A text is a sequence of characters.  Chars lists the characters of the
\* texts in code point order, the order in which sorted() compares strings.
Chars ==
  << " ", "-", "/", "0", "1", "2", "3", "4", "5", "6", "7", "8", "9", "A",
     "B", "C", "D", "E", "F", "G", "H", "I", "J", "K", "L", "M", "N", "O",
     "P", "Q", "R", "S", "T", "U", "V", "W", "X", "Y", "Z", "a", "b", "c",
     "d", "e", "f", "g", "h", "i", "j", "k", "l", "m", "n", "o", "p", "q",
     "r", "s", "t", "u", "v", "w", "x", "y", "z" >>

Ord(c) == CHOOSE i \in 1..Len(Chars) : Chars[i] = c

Digits == {Chars[i] : i \in 4..13}

Upper == {Chars[i] : i \in 14..39}

Lower == {Chars[i] : i \in 40..65}

\* \w, and \b in front of position i of t
IsWord(c) == c \in Digits \cup Upper \cup Lower

Boundary(t, i) ==
  LET before == i > 1 /\ IsWord(t[i - 1])
      after == i <= Len(t) /\ IsWord(t[i])
  IN before # after

\* \b[A-Z0-9]{3,5}-?[0-9A-Z]{3,6}\b
PART_NUMBER_RE ==
  [ first |-> Upper \cup Digits, counts1 |-> 3..5, hyphens |-> {0, 1},
    second |-> Digits \cup Upper, counts2 |-> 3..6 ]

\* \b[A-Z0-9]{3,}-[A-Z0-9/]{3,}\b
MODEL_RE ==
  [ first |-> Upper \cup Digits, counts1 |-> Nat \ (0..2), hyphens |-> {1},
    second |-> Upper \cup Digits \cup {"/"}, counts2 |-> Nat \ (0..2) ]

\* The number of characters of class cls that t holds from position s on.
RECURSIVE RunLen(_, _, _)
RunLen(t, s, cls) ==
  IF s > Len(t) \/ t[s] \notin cls THEN 0 ELSE 1 + RunLen(t, s + 1, cls)

\* The ways the pattern matches at position s: characters taken by the
\* first group, by the hyphen, by the second group.
Candidates(t, s, pat) ==
  IF ~Boundary(t, s) THEN {}
  ELSE { c \in (1..RunLen(t, s, pat.first)) \X pat.hyphens \X (1..Len(t)) :
           /\ c[1] \in pat.counts1
           /\ c[2] = 1 => (s + c[1] <= Len(t) /\ t[s + c[1]] = "-")
           /\ c[3] \in pat.counts2
           /\ c[3] <= RunLen(t, s + c[1] + c[2], pat.second)
           /\ Boundary(t, s + c[1] + c[2] + c[3]) }

\* Greedy quantifiers with backtracking: the match found first takes the
\* most for the first group, then the hyphen if it can, then the most for
\* the second group.
Greedier(c, d) ==
  \/ c[1] > d[1]
  \/ c[1] = d[1] /\ c[2] > d[2]
  \/ c[1] = d[1] /\ c[2] = d[2] /\ c[3] >= d[3]

\* Length of the match at s, 0 when there is none.
MatchAt(t, s, pat) ==
  LET C == Candidates(t, s, pat)
  IN IF C = {} THEN 0
     ELSE LET best == CHOOSE c \in C : \A d \in C : Greedier(c, d)
          IN best[1] + best[2] + best[3]

Substring(t, s, n) == [i \in 1..n |-> t[s + i - 1]]

\* pattern.findall(text): the matches left to right, none overlapping.
RECURSIVE FindAll(_, _, _)
FindAll(t, s, pat) ==
  IF s > Len(t) THEN <<>>
  ELSE LET n == MatchAt(t, s, pat)
       IN IF n = 0 THEN FindAll(t, s + 1, pat)
          ELSE <<Substring(t, s, n)>> \o FindAll(t, s + n, pat)

\* a < b as Python compares two strings
StrLess(a, b) ==
  \E i \in 1..(Len(a) + 1) :
    /\ i <= Len(b)
    /\ \A j \in 1..(i - 1) : a[j] = b[j]
    /\ i <= Len(a) => Ord(a[i]) < Ord(b[i])

RECURSIVE SortStrings(_)
SortStrings(S) ==
  IF S = {} THEN <<>>
  ELSE LET m == CHOOSE x \in S : \A y \in S \ {x} : StrLess(x, y)
       IN <<m>> \o SortStrings(S \ {m})

\* The list of matches returned as found.
SortedSetKeepAll(candidates) == candidates

\* sorted(set(candidates))
SortedSet(candidates) == SortStrings({candidates[i] : i \in DOMAIN candidates})

extract_part_numbers(t) == SortedSet(FindAll(t, 1, PART_NUMBER_RE))

extract_model_numbers(t) == SortedSet(FindAll(t, 1, MODEL_RE))

\* The texts the extractors are run on: up to MaxWords entries of
\* Vocabulary joined by single spaces.
Vocabulary ==
  << <<"P", "a", "r", "t", " ", "W", "R", "-",
        "6", "0", "X", "1", "0", "0", "7", "4">>,
     <<"M", "o", "d", "e", "l", " ", "A", "B",
        "C", "-", "1", "2", "3", "/", "D", "E", "F">>,
     <<"a", "n", "d">>,
     <<"A", "B", "C", "1", "2", "3">>,
     <<"X", "Y", "Z", "-", "9", "9", "9">>,
     <<"A", "B", "C", "-", "1", "2", "3", "/">> >>

RECURSIVE Join(_)
Join(ws) ==
  IF ws = <<>> THEN <<>>
  ELSE IF Len(ws) = 1 THEN Vocabulary[ws[1]]
  ELSE Vocabulary[Head(ws)] \o <<" ">> \o Join(Tail(ws))

Texts ==
  {Join(ws) : ws \in UNION {[1..n -> 1..Len(Vocabulary)] : n \in 0..MaxWords}}

\* ------------------------------------------------------------ the stores
Namespace == "appliance_manuals"

Labels(p) ==
  IF Len(Parts(p)) >= 2
  THEN [appliance_type |-> Parts(p)[1], brand |-> Parts(p)[2]]
  ELSE [appliance_type |-> "unknown", brand |-> "unknown"]

\* DenseEmbedder.embed and SparseEmbedder.embed: one vector per text, in the
\* order of the texts.  A vector is named by the text it was computed from.
DenseEmbed(texts) == [i \in 1..Len(texts) |-> <<"dense", texts[i]>>]

SparseEmbed(texts) == [i \in 1..Len(texts) |-> <<"sparse", texts[i]>>]

\* One element of to_upsert, for chunk number idx (0-based) of the file at p.
Record(p, idx, dense, sparse, text) ==
  [ id |-> <<p.stem, idx>>,
    values |-> dense,
    sparse_values |-> sparse,
    metadata |-> [ document_id |-> p.stem, chunk_index |-> idx, text |-> text,
                   appliance_type |-> Labels(p).appliance_type,
                   brand |-> Labels(p).brand ] ]

\* enumerate(zip(dense_vectors, sparse_vectors, chunks)) as the code builds
\* it: position i of the three lists, numbered from start.
Zipped(p, chunks, first) ==
  LET dense_vectors == DenseEmbed(chunks)
      sparse_vectors == SparseEmbed(chunks)
  IN [i \in 1..Len(chunks) |->
        Record(p, first + i - 1, dense_vectors[i], sparse_vectors[i], chunks[i])]

\* The records numbered from 1.
ToUpsertOneBased(p, chunks) == Zipped(p, chunks, 1)

ToUpsert(p, chunks) == Zipped(p, chunks, 0)

\* to_upsert[start : start + batch_size], start 0-based
SliceTo(recs, start, stop) ==
  LET last == IF stop < Len(recs) THEN stop ELSE Len(recs)
  IN [i \in 1..(last - start) |-> recs[start + i]]

\* A slice that stops one record early.
SliceShort(recs, start, size) == SliceTo(recs, start, start + size - 1)

Slice(recs, start, size) == SliceTo(recs, start, start + size)

\* An upsert that first empties the namespace.
UpsertReplaceAll(vs, ns, batch) ==
  LET kept == {k \in DOMAIN vs : k[1] # ns}
      keys == {<<ns, batch[i].id>> : i \in 1..Len(batch)}
  IN [k \in kept \cup keys |->
        IF k \in keys
        THEN LET i == CHOOSE j \in 1..Len(batch) : batch[j].id = k[2] IN batch[i]
        ELSE vs[k]]

\* pinecone.upsert(vectors=batch, namespace=ns): a record replaces the one
\* stored under its id in that namespace.
Upsert(vs, ns, batch) ==
  LET ids == {batch[i].id : i \in 1..Len(batch)}
      keys == {<<ns, id>> : id \in ids}
  IN [k \in DOMAIN vs \cup keys |->
        IF k \in keys
        THEN LET i == CHOOSE j \in 1..Len(batch) : batch[j].id = k[2] IN batch[i]
        ELSE vs[k]]

\* supabase.table("documents").upsert(row): one row per document_id.
UpsertRow(ds, row) ==
  {r \in ds : r.document_id # row.document_id} \cup {row}

\* ------------------------------------------------------ the sparse indices
\* A 32-bit word is the pair <<high half, low half>> of 16-bit numbers.
Half == 65536

RECURSIVE Xor(_, _)
Xor(a, b) ==
  IF a = 0 THEN b
  ELSE IF b = 0 THEN a
  ELSE (2 * Xor(a \div 2, b \div 2)) + ((a + b) % 2)

XorWord(v, w) == <<Xor(v[1], w[1]), Xor(v[2], w[2])>>

ShiftRight(w) == <<w[1] \div 2, (w[2] \div 2) + ((w[1] % 2) * (Half \div 2))>>

ShiftRight8(w) == <<w[1] \div 256, (w[2] \div 256) + ((w[1] % 256) * 256)>>

\* The reflected CRC-32 polynomial 0xEDB88320.
Polynomial == <<60856, 33568>>

\* One bit: shift, and fold the polynomial in when a 1 fell out.
Round(w) ==
  IF w[2] % 2 = 1 THEN XorWord(ShiftRight(w), Polynomial) ELSE ShiftRight(w)

RECURSIVE Rounds(_, _)
Rounds(w, n) == IF n = 0 THEN w ELSE Rounds(Round(w), n - 1)

\* The table of the byte-wise algorithm: eight rounds for each byte value.
CrcTable == [b \in 0..255 |-> Rounds(<<0, b>>, 8)]

\* One table step per byte: crc = table[(crc ^ byte) & 0xFF] ^ (crc >> 8).
RECURSIVE Update(_, _)
Update(w, bytes) ==
  IF bytes = <<>> THEN w
  ELSE Update(XorWord(CrcTable[Xor(w[2] % 256, Head(bytes))], ShiftRight8(w)),
              Tail(bytes))

\* zlib.crc32(bytes): start from all ones, one step per byte, complement.
crc32(bytes) ==
  LET w == Update(<<Half - 1, Half - 1>>, bytes)
  IN <<Half - 1 - w[1], Half - 1 - w[2]>>

\* str.encode("utf-8") of one code point, and of a token.
Utf8(cp) ==
  IF cp < 128 THEN <<cp>>
  ELSE IF cp < 2048 THEN <<192 + (cp \div 64), 128 + (cp % 64)>>
  ELSE <<224 + (cp \div 4096), 128 + ((cp \div 64) % 64), 128 + (cp % 64)>>

RECURSIVE Encode(_)
Encode(token) ==
  IF token = <<>> THEN <<>> ELSE Utf8(Head(token)) \o Encode(Tail(token))

\* The weights listed last term first.
MapSparseTokensReversed(items) ==
  [ indices |-> [j \in 1..Len(items) |-> crc32(Encode(items[j].token))],
    values |-> [j \in 1..Len(items) |-> items[Len(items) + 1 - j].weight] ]

\* _map_sparse_tokens over sparse.items(), the dict's terms in insertion
\* order.
MapSparseTokens(items) ==
  [ indices |-> [j \in 1..Len(items) |-> crc32(Encode(items[j].token))],
    values |-> [j \in 1..Len(items) |-> items[j].weight] ]

\* Tokens over "a" and "e" with acute accent, as code points; two weights.
Alphabet == {97, 233}

Tokens == UNION {[1..n -> Alphabet] : n \in 1..MaxTokenLen}

Weights == {1, 2}

\* The dicts of up to MaxTerms terms: no term twice.
SparseDicts ==
  {d \in UNION {[1..m -> [token : Tokens, weight : Weights]] : m \in 0..MaxTerms} :
     \A i, j \in 1..Len(d) : d[i].token = d[j].token => i = j}

\* ------------------------------------------------------------- retrieval
\* settings.pinecone_index, which RetrievalPipeline also uses as namespace
QueryNamespace == "appliance-manuals"

\* Two different query strings.
Queries == {"q1", "q2"}

\* A retriever that asks for three times top_k.
CandidateCountTriple(k) == k * 3

\* PineconeEmbeddingRetriever(..., top_k=top_k * 2)
CandidateCount(k) == k * 2

\* TransformersSimilarityRanker(..., top_k=top_k)
RankerCount(k) == k

IdLess(a, b) == Rank(a[1]) < Rank(b[1]) \/ (a[1] = b[1] /\ a[2] < b[2])

RECURSIVE SortIds(_)
SortIds(S) ==
  IF S = {} THEN <<>>
  ELSE LET m == CHOOSE x \in S : \A y \in S \ {x} : IdLess(x, y)
       IN <<m>> \o SortIds(S \ {m})

Reverse(seq) == [i \in 1..Len(seq) |-> seq[Len(seq) + 1 - i]]

FirstN(seq, n) == [i \in 1..(IF n < Len(seq) THEN n ELSE Len(seq)) |-> seq[i]]

\* The ids of namespace ns, nearest to the query first.  The embedding
\* geometry is fixed: "q1" lies nearest the first chunk, "q2" nearest the
\* last.
NearestFirst(q, vs, ns) ==
  LET ids == SortIds({k[2] : k \in {x \in DOMAIN vs : x[1] = ns}})
  IN IF q = "q1" THEN ids ELSE Reverse(ids)

\* The retriever: the n nearest records of the namespace as documents, each
\* with its dense similarity as score.
Retrieve(q, vs, ns, n) ==
  LET near == FirstN(NearestFirst(q, vs, ns), n)
  IN [i \in 1..Len(near) |->
        [ id |-> near[i], meta |-> vs[<<ns, near[i]>>].metadata,
          score |-> Len(near) - i ]]

\* A query that removes what it returns from the index.
StoreDropsFetched(vs, ns, docs) ==
  [k \in DOMAIN vs \ {<<ns, docs[i].id>> : i \in 1..Len(docs)} |-> vs[k]]

\* The index after a query: a query writes nothing.
StoreAfterQuery(vs, ns, docs) == vs

\* The ranker: the documents, each scored for the query by the
\* cross-encoder (score[id]), highest score first, equal scores in the
\* order received, cut to n.  The sort happens inside the library class
\* TransformersSimilarityRanker; its order among equal scores is written
\* here as the specification states it (stable).
RECURSIVE InsertByScore(_, _)
InsertByScore(sorted, d) ==
  IF sorted = <<>> THEN <<d>>
  ELSE IF Head(sorted).score >= d.score
       THEN <<Head(sorted)>> \o InsertByScore(Tail(sorted), d)
       ELSE <<d>> \o sorted

RECURSIVE SortByScore(_)
SortByScore(docs) ==
  IF docs = <<>> THEN <<>>
  ELSE InsertByScore(SortByScore(SubSeq(docs, 1, Len(docs) - 1)), docs[Len(docs)])

Ranker(docs, score, n) ==
  FirstN(SortByScore([i \in 1..Len(docs) |-> [docs[i] EXCEPT !.score = score[docs[i].id]]]),
         n)

\* _to_result(document), and the list retrieve() returns
ToResult(doc) ==
  [ document_id |-> doc.meta.document_id, source |-> "pinecone",
    appliance_type |-> doc.meta.appliance_type, score |-> doc.score ]

ToResults(docs) == [i \in 1..Len(docs) |-> ToResult(docs[i])]

\* ------------------------------------------------- the conversation memory
Sessions == {"s1", "s2"}

\* One row of the "messages" table, and what select("role, content") and
\* the local store keep of it.
Payload(session_id, role, content) ==
  [conversation_id |-> session_id, role |-> role, content |-> content]

Entry(payload) == [role |-> payload.role, content |-> payload.content]

\* table("messages").insert(payload): created_at is the insertion order.
Insert(table, payload) == Append(table, payload)

\* eq("conversation_id", s).order("created_at", desc=True).limit(n), and
\* list(reversed(response.data)).
Select(table, session_id, n) ==
  LET Mine(row) == row.conversation_id = session_id
      rows == SelectSeq(table, Mine)
      data == FirstN(Reverse(rows), n)
  IN [i \in 1..Len(data) |-> Entry(Reverse(data)[i])]

\* history[-self.window:]
LastN(seq, n) ==
  IF Len(seq) <= n THEN seq ELSE SubSeq(seq, Len(seq) - n + 1, Len(seq))

\* _fetch_local
FetchLocal(store, session_id, n) == LastN(store[session_id], n)

\* _append_local: setdefault, then append.
AppendLocal(store, payload) ==
  [store EXCEPT ![payload.conversation_id] = Append(@, Entry(payload))]

\* ------------------------------------------------- the agent orchestrator
Requests == {1, 2}

\* request.message and response.content of turn c
Question(c) == 2 * c - 1

Reply(c) == 2 * c

\* run(): should_search is the request's flag, forced when retrieval gave
\* nothing, else raised by _should_search.
ShouldSearchOnRequest(requires_search, retrieved_chunks, classified) ==
  requires_search \/ (retrieved_chunks # 0 /\ classified)

ShouldSearch(requires_search, retrieved_chunks, classified) ==
  IF retrieved_chunks = 0 THEN TRUE
  ELSE IF classified THEN TRUE
  ELSE requires_search

\* ToolRouter.route: the tools it calls, in order.
Route(image_ids, requires_search) ==
  (IF image_ids THEN <<"vision">> ELSE <<>>)
    \o (IF requires_search THEN <<"web_search">> ELSE <<>>)

\* ConversationMemory.append on the pair <<table, local store>>.
Remember(memory, up, payload) ==
  IF up THEN <<Insert(memory[1], payload), memory[2]>>
  ELSE <<memory[1], AppendLocal(memory[2], payload)>>

\* ------------------------------------------------------------------ state
VARIABLES
  dir,          \* the tree below pdf_root: path -> bytes of the file
  batch_size,   \* IngestionConfig.batch_size
  file,         \* the checkpoint file (config.state_file)
  vstore,       \* the Pinecone index: <<namespace, id>> -> record
  docstore,     \* the Supabase "documents" table
  pc,           \* where the process is
  state,        \* StateTracker.state of the running process
  todo,         \* sorted(pdf_root.glob("**/*.pdf")) of this run
  cur,          \* position of the loop in todo
  digest,       \* digest of the file the loop is at
  chunks,       \* chunks of the document being processed
  to_upsert,    \* its embedding records
  start,        \* loop variable of the upsert loop
  run,          \* ingest() runs started so far
  attempted,    \* paths marked processing in this run
  skips,        \* paths skipped as completed in this run
  embedCalls,   \* embedding passes made in this run
  upsertCount,  \* upsert calls that returned in this run
  upsertCalls,  \* upsert calls issued for the current document, in order
  failedStep,   \* the step that raised in this run, or "none"
  crashedIn,    \* pc at which a process was last killed, or "none"
  clean,        \* nothing has raised and no process was killed so far
  recovering,   \* digests found `processing` by this run's load
  metaOk,       \* digests whose metadata write has returned
  snapshot,     \* stores and checkpoint at the end of a first clean run
  metaCalls,    \* paths whose metadata write was issued in this run
  partial,      \* digests whose upsert loop once stopped after its first batch
  marked,       \* digests some process has assigned an entry to
  vision_analyzer,   \* components.vision_analyzer is configured
  page_number,  \* loop variable of the page loop, 0 before the first page
  img_index,    \* loop variable of the image loop, 0 before the first image
  text_pages,   \* text of the pages read so far
  image_metadata,    \* descriptors of the images analysed so far
  exportFailed, \* <<page, image>> of the exports that returned None
  sparse,       \* the term-weight dict handed to _map_sparse_tokens
  sparse_values,     \* what _map_sparse_tokens returned
  workers,      \* two controllers on one checkpoint file: where each is, its map
  messages,     \* the Supabase "messages" table, in created_at order
  local_memory_store,  \* _local_memory_store: session -> entries
  supabase_up,  \* the Supabase service answers
  window,       \* ConversationMemory.window
  appended,     \* session -> the entries append() was called with, in call order
  fetched,      \* the last fetch(): session, result, and `appended` at that time
  chats,        \* AgentOrchestrator.run calls: request -> where it is, its locals
  text,         \* the text handed to the two extractors
  part_numbers, \* what extract_part_numbers returned
  model_numbers,\* what extract_model_numbers returned
  extracted,    \* the extractors that have returned
  pinecone_api_key,  \* settings.pinecone_api_key is set
  reachable,    \* the Pinecone service answers
  retrieval,    \* AgentContext.retrieval_pipeline: "unbuilt", "none", "pipeline"
  top_k,        \* RetrievalPipeline.top_k, 0 before a pipeline exists
  query_namespace,   \* namespace of RetrievalPipeline.document_store
  relevance,    \* cross-encoder score of each stored chunk for query "q1"
  turns         \* the chat turns: call id -> where it is and what it holds

durable == <<dir, batch_size, file, vstore, docstore>>

locals == <<state, todo, cur, digest, chunks, to_upsert, start>>

history == <<run, attempted, skips, embedCalls, upsertCount, upsertCalls,
             failedStep, crashedIn, clean, recovering, metaOk, snapshot,
             metaCalls, partial, marked>>

ingestion == <<durable, pc, locals, history>>

extraction == <<text, part_numbers, model_numbers, extracted>>

serving == <<pinecone_api_key, reachable, retrieval, top_k, query_namespace,
             relevance, turns>>

imaging == <<vision_analyzer, page_number, img_index, text_pages, image_metadata,
             exportFailed>>

\* What neither an ingestion run nor the extractors nor a chat turn touch.
hashing == <<sparse, sparse_values>>

pair == <<workers>>

conversation == <<messages, local_memory_store, supabase_up, window, appended, fetched>>

orchestration == <<chats>>

aside == <<imaging, hashing, pair, conversation, orchestration>>

\* What an ingestion run does not touch.
others == <<extraction, serving, aside>>

vars == <<ingestion, others>>

Work == {"parse", "embed", "upsert", "meta"}

Running == {"iter"} \cup Work \cup {"finish"}

Directories == UNION {[S -> Bytes] : S \in SUBSET AllPaths}

NoSnapshot == [taken |-> FALSE]

IngestionIdle ==
  /\ file = NoFile
  /\ docstore = {}
  /\ pc = "idle"
  /\ state = EmptyMap
  /\ todo = <<>>
  /\ cur = 1
  /\ digest = Digest(0)
  /\ chunks = <<>>
  /\ to_upsert = <<>>
  /\ start = 0
  /\ run = 0
  /\ attempted = {}
  /\ skips = {}
  /\ embedCalls = 0
  /\ upsertCount = 0
  /\ upsertCalls = <<>>
  /\ failedStep = "none"
  /\ crashedIn = "none"
  /\ clean = TRUE
  /\ recovering = {}
  /\ metaOk = {}
  /\ snapshot = NoSnapshot
  /\ metaCalls = {}
  /\ partial = {}
  /\ marked = {}

IngestionInit ==
  /\ dir \in Directories
  /\ batch_size \in 1..MaxBatch
  /\ vstore = EmptyMap
  /\ IngestionIdle

\* No extractor has been called.
ExtractionIdle ==
  /\ text = <<>>
  /\ part_numbers = <<>>
  /\ model_numbers = <<>>
  /\ extracted = {}

CallIds == 1..MaxCalls

IdleCall ==
  [ stage |-> "idle", query |-> "none", down |-> FALSE, overlapped |-> FALSE,
    candidates |-> <<>>, documents |-> <<>>, results |-> <<>> ]

\* The application has not been started.
ServingIdle ==
  /\ pinecone_api_key = FALSE
  /\ reachable = TRUE
  /\ retrieval = "unbuilt"
  /\ top_k = 0
  /\ query_namespace = "none"
  /\ relevance = EmptyMap
  /\ turns = [c \in CallIds |-> IdleCall]

\* No document is open.
ImagingIdle ==
  /\ vision_analyzer = FALSE
  /\ page_number = 0
  /\ img_index = 0
  /\ text_pages = <<>>
  /\ image_metadata = <<>>
  /\ exportFailed = {}

NotCalled == [called |-> FALSE]

\* _map_sparse_tokens has not been called.
HashingIdle == sparse = <<>> /\ sparse_values = NotCalled

Controllers == {1, 2}

IdleWorker == [pc |-> "idle", state |-> EmptyMap, cur |-> 1, digest |-> Digest(0)]

\* No second controller has been started.
PairIdle == workers = [c \in Controllers |-> IdleWorker]

NotFetched == [called |-> FALSE]

\* No conversation has taken place.
ConversationIdle ==
  /\ messages = <<>>
  /\ local_memory_store = [s \in Sessions |-> <<>>]
  /\ supabase_up = TRUE
  /\ window = 1
  /\ appended = [s \in Sessions |-> <<>>]
  /\ fetched = NotFetched

IdleChat ==
  [ pc |-> "idle", session_id |-> "s1", requires_search |-> FALSE,
    retrieved_chunks |-> 0, should_search |-> FALSE, invoked |-> <<>>,
    tool_events |-> <<>>, failed |-> "none" ]

OrchestratorIdle == chats = [c \in Requests |-> IdleChat]

AsideIdle ==
  ImagingIdle /\ HashingIdle /\ PairIdle /\ ConversationIdle /\ OrchestratorIdle

Init == IngestionInit /\ ExtractionIdle /\ ServingIdle /\ AsideIdle

\* ---------------------------------------------------------------- actions
Stopped == pc \in {"idle", "done", "aborted", "crashed"}

\* IngestionPipeline.__init__ followed by ingest(): load the checkpoint,
\* enumerate the files.
StartRun ==
  /\ Stopped
  /\ run < MaxRuns
  /\ file # Torn
  /\ state' = Load(file)
  /\ todo' = Sorted(DOMAIN dir)
  /\ cur' = 1
  /\ pc' = "iter"
  /\ run' = run + 1
  /\ attempted' = {}
  /\ skips' = {}
  /\ embedCalls' = 0
  /\ upsertCount' = 0
  /\ upsertCalls' = <<>>
  /\ failedStep' = "none"
  /\ recovering' = {d \in DOMAIN Load(file) : Load(file)[d].status = "processing"}
  /\ metaCalls' = {}
  /\ UNCHANGED <<durable, digest, chunks, to_upsert, start, crashedIn, clean, metaOk,
                 snapshot, partial, marked>>
  /\ UNCHANGED others

\* json.loads raises on a checkpoint file an interrupted write left empty.
LoadFails ==
  /\ Stopped
  /\ run < MaxRuns
  /\ file = Torn
  /\ pc' = "loaderror"
  /\ run' = run + 1
  /\ clean' = FALSE
  /\ UNCHANGED <<durable, locals, attempted, skips, embedCalls, upsertCount,
                 upsertCalls, failedStep, crashedIn, recovering, metaOk, snapshot,
                 metaCalls, partial, marked>>
  /\ UNCHANGED others

\* The loop body up to the call of _process_pdf: digest, status check, skip
\* or mark `processing`.
Visit ==
  /\ pc = "iter"
  /\ cur <= Len(todo)
  /\ LET p == todo[cur]
         d == PathDigest(p, dir[p])
     IN /\ digest' = d
        /\ IF ShouldSkip(StatusOf(state, d))
           THEN /\ cur' = cur + 1
                /\ skips' = skips \cup {p}
                /\ UNCHANGED <<pc, state, file, attempted, upsertCalls, marked>>
           ELSE /\ state' = Mark(state, d, InFlightStatus, FileName(p)).state
                /\ file' = Mark(state, d, InFlightStatus, FileName(p)).file
                /\ pc' = "parse"
                /\ attempted' = attempted \cup {p}
                /\ upsertCalls' = <<>>
                /\ marked' = marked \cup {d}
                /\ UNCHANGED <<cur, skips>>
  /\ UNCHANGED <<dir, batch_size, vstore, docstore, todo, chunks, to_upsert, start,
                 run, embedCalls, upsertCount, failedStep, crashedIn, clean,
                 recovering, metaOk, snapshot, metaCalls, partial>>
  /\ UNCHANGED others

\* An exception that is caught and swallowed around _process_pdf.
RaiseSwallowed(step) ==
  /\ pc' = "finish"
  /\ failedStep' = step
  /\ clean' = FALSE

\* An exception leaves _process_pdf and ingest(): nothing catches it.
Raise(step) ==
  /\ pc' = "aborted"
  /\ failedStep' = step
  /\ clean' = FALSE

\* fitz.open, the page loop and chunk_iterable; `if not chunks: return`.
Parse ==
  /\ pc = "parse"
  /\ LET b == dir[todo[cur]]
     IN \E ok \in BOOLEAN :
          IF Corrupt(b) \/ ~ok
          THEN /\ Raise("parse")
               /\ UNCHANGED chunks
          ELSE /\ chunks' = chunk_iterable(b)
               /\ pc' = IF chunks' = <<>> THEN "finish" ELSE "embed"
               /\ UNCHANGED <<failedStep, clean>>
  /\ UNCHANGED <<durable, state, todo, cur, digest, to_upsert, start, run,
                 attempted, skips, embedCalls, upsertCount, upsertCalls,
                 crashedIn, recovering, metaOk, snapshot, metaCalls, partial, marked>>
  /\ UNCHANGED others

\* fit, dense embed, sparse embed, the Pinecone index handle, to_upsert.
Embed ==
  /\ pc = "embed"
  /\ embedCalls' = embedCalls + 1
  /\ \E ok \in BOOLEAN :
       IF ok
       THEN /\ to_upsert' = ToUpsert(todo[cur], chunks)
            /\ start' = 0
            /\ pc' = "upsert"
            /\ UNCHANGED <<failedStep, clean>>
       ELSE /\ Raise("embed")
            /\ UNCHANGED <<to_upsert, start>>
  /\ UNCHANGED <<durable, state, todo, cur, digest, chunks, run, attempted, skips,
                 upsertCount, upsertCalls, crashedIn, recovering, metaOk, snapshot,
                 metaCalls, partial, marked>>
  /\ UNCHANGED others

\* One iteration of the upsert loop.
UpsertBatch ==
  /\ pc = "upsert"
  /\ LET batch == Slice(to_upsert, start, batch_size)
     IN /\ upsertCalls' = Append(upsertCalls, [namespace |-> Namespace, vectors |-> batch])
        /\ \E ok \in BOOLEAN :
             IF ok
             THEN /\ vstore' = Upsert(vstore, Namespace, batch)
                  /\ upsertCount' = upsertCount + 1
                  /\ start' = start + batch_size
                  /\ pc' = IF start' < Len(to_upsert) THEN "upsert" ELSE "meta"
                  /\ UNCHANGED <<failedStep, clean, partial>>
             ELSE /\ Raise("upsert")
                  /\ partial' = IF start > 0 THEN partial \cup {digest} ELSE partial
                  /\ UNCHANGED <<vstore, upsertCount, start>>
  /\ UNCHANGED <<dir, batch_size, file, docstore, state, todo, cur, digest, chunks,
                 to_upsert, run, attempted, skips, embedCalls, crashedIn,
                 recovering, metaOk, snapshot, metaCalls>>
  /\ UNCHANGED marked
  /\ UNCHANGED others

\* supabase.table("documents").upsert(...).execute()
MetaWrite ==
  /\ pc = "meta"
  /\ LET p == todo[cur]
         row == [ document_id |-> p.stem, filename |-> FileName(p),
                  total_pages |-> NPages(dir[p]), images |-> image_metadata ]
     IN /\ metaCalls' = metaCalls \cup {p}
        /\ \E ok \in BOOLEAN :
          IF ok
          THEN /\ docstore' = UpsertRow(docstore, row)
               /\ metaOk' = metaOk \cup {digest}
               /\ pc' = "finish"
               /\ UNCHANGED <<failedStep, clean>>
          ELSE /\ Raise("meta")
               /\ UNCHANGED <<docstore, metaOk>>
  /\ UNCHANGED <<dir, batch_size, file, vstore, locals, run, attempted, skips,
                 embedCalls, upsertCount, upsertCalls, crashedIn, recovering,
                 snapshot, partial, marked>>
  /\ UNCHANGED others

\* The loop moves to the next file and leaves the checkpoint as it was.
FinishUnmarked ==
  /\ pc = "finish"
  /\ cur' = cur + 1
  /\ pc' = "iter"
  /\ UNCHANGED <<durable, state, todo, digest, chunks, to_upsert, start, history>>
  /\ UNCHANGED others

\* _process_pdf returned: mark `completed`, next file.
Finish ==
  /\ pc = "finish"
  /\ state' = Mark(state, digest, "completed", FileName(todo[cur])).state
  /\ file' = Mark(state, digest, "completed", FileName(todo[cur])).file
  /\ cur' = cur + 1
  /\ pc' = "iter"
  /\ marked' = marked \cup {digest}
  /\ UNCHANGED <<dir, batch_size, vstore, docstore, todo, digest, chunks, to_upsert,
                 start, run, attempted, skips, embedCalls, upsertCount, upsertCalls,
                 failedStep, crashedIn, clean, recovering, metaOk, snapshot,
                 metaCalls, partial>>
  /\ UNCHANGED others

\* The enumeration is exhausted: ingest() returns.
EndRun ==
  /\ pc = "iter"
  /\ cur > Len(todo)
  /\ pc' = "done"
  /\ snapshot' = IF run = 1 /\ clean
                 THEN [taken |-> TRUE, vstore |-> vstore, state |-> state, file |-> file]
                 ELSE snapshot
  /\ UNCHANGED <<durable, locals, run, attempted, skips, embedCalls, upsertCount,
                 upsertCalls, failedStep, crashedIn, clean, recovering, metaOk,
                 metaCalls, partial, marked>>
  /\ UNCHANGED others

\* The process is killed between two steps.  The variables keep what the
\* process held when it died; the next StartRun discards it.
Crash ==
  /\ pc \in Running
  /\ pc' = "crashed"
  /\ crashedIn' = pc
  /\ clean' = FALSE
  /\ partial' = IF pc = "upsert" /\ start > 0 THEN partial \cup {digest} ELSE partial
  /\ UNCHANGED <<durable, locals, run, attempted, skips, embedCalls, upsertCount,
                 upsertCalls, failedStep, recovering, metaOk, snapshot, metaCalls>>
  /\ UNCHANGED marked
  /\ UNCHANGED others

\* The process is killed inside write_text, after the file was truncated and
\* before the new text was written.
CrashInPersist ==
  /\ \/ /\ pc = "iter"
        /\ cur <= Len(todo)
        /\ ~ShouldSkip(StatusOf(state, PathDigest(todo[cur], dir[todo[cur]])))
        /\ state' = Put(state, PathDigest(todo[cur], dir[todo[cur]]), InFlightStatus,
                      FileName(todo[cur]))
        /\ digest' = PathDigest(todo[cur], dir[todo[cur]])
     \/ /\ pc = "finish"
        /\ state' = Put(state, digest, "completed", FileName(todo[cur]))
        /\ UNCHANGED digest
  /\ file' = Torn
  /\ marked' = marked \cup {digest'}
  /\ pc' = "crashed"
  /\ crashedIn' = "persist"
  /\ clean' = FALSE
  /\ UNCHANGED <<dir, batch_size, vstore, docstore, todo, cur, chunks, to_upsert,
                 start, run, attempted, skips, embedCalls, upsertCount, upsertCalls,
                 failedStep, recovering, metaOk, snapshot, metaCalls, partial>>
  /\ UNCHANGED others

Next ==
  \/ StartRun
  \/ LoadFails
  \/ Visit
  \/ Parse
  \/ Embed
  \/ UpsertBatch
  \/ MetaWrite
  \/ Finish
  \/ EndRun
  \/ Crash
  \/ CrashInPersist

Spec == Init /\ [][Next]_vars

\* --------------------------------------------- the extractors on their own
\* The two extractors called on one text, in either order; no ingestion
\* run is going on.
InitExtract ==
  /\ IngestionInit
  /\ dir = EmptyMap
  /\ batch_size = 1
  /\ text \in Texts
  /\ part_numbers = <<>>
  /\ model_numbers = <<>>
  /\ extracted = {}
  /\ ServingIdle
  /\ AsideIdle

ExtractParts ==
  /\ "part" \notin extracted
  /\ part_numbers' = extract_part_numbers(text)
  /\ extracted' = extracted \cup {"part"}
  /\ UNCHANGED <<ingestion, serving, aside, text, model_numbers>>

ExtractModels ==
  /\ "model" \notin extracted
  /\ model_numbers' = extract_model_numbers(text)
  /\ extracted' = extracted \cup {"model"}
  /\ UNCHANGED <<ingestion, serving, aside, text, part_numbers>>

NextExtract == ExtractParts \/ ExtractModels

SpecExtract == InitExtract /\ [][NextExtract]_vars

\* ------------------------------------------------ the page loop, step by step
\* The run of Spec with the page loop of _process_pdf taken one page and
\* one image at a time; an analyzer may be configured.
InitImages ==
  /\ IngestionInit
  /\ Cardinality(DOMAIN dir) = 1
  /\ ExtractionIdle
  /\ ServingIdle
  /\ vision_analyzer \in BOOLEAN
  /\ page_number = 0
  /\ img_index = 0
  /\ text_pages = <<>>
  /\ image_metadata = <<>>
  /\ exportFailed = {}
  /\ HashingIdle
  /\ PairIdle
  /\ ConversationIdle
  /\ OrchestratorIdle

\* What the page loop leaves alone.
pageFrame ==
  <<durable, state, todo, cur, digest, to_upsert, start, run, attempted, skips,
    embedCalls, upsertCount, upsertCalls, crashedIn, recovering, metaOk,
    snapshot, metaCalls, partial, marked, extraction, serving, vision_analyzer,
    hashing, pair, conversation, orchestration>>

\* text_pages = [], image_metadata = [], fitz.open(pdf_path)
OpenDocument ==
  /\ pc = "parse"
  /\ \E ok \in BOOLEAN :
       IF Corrupt(dir[todo[cur]]) \/ ~ok
       THEN /\ Raise("parse")
            /\ UNCHANGED <<page_number, img_index, text_pages, image_metadata,
                           exportFailed>>
       ELSE /\ pc' = "page"
            /\ page_number' = 0
            /\ img_index' = 0
            /\ text_pages' = <<>>
            /\ image_metadata' = <<>>
            /\ exportFailed' = {}
            /\ UNCHANGED <<failedStep, clean>>
  /\ UNCHANGED <<pageFrame, chunks>>

\* The head of the page loop: the next page's text is appended before its
\* images are looked at.
ReadPage ==
  /\ pc = "page"
  /\ page_number < NPages(dir[todo[cur]])
  /\ page_number' = page_number + 1
  /\ text_pages' = Append(text_pages, TextPages(dir[todo[cur]])[page_number'])
  /\ img_index' = 0
  /\ pc' = IF Images(dir[todo[cur]], page_number') = 0 THEN "page" ELSE "image"
  /\ UNCHANGED <<pageFrame, chunks, image_metadata, exportFailed, failedStep, clean>>

\* One iteration of the image loop: export, then analyse what was exported.
\* The analyzer's own exceptions are not caught.
ExportOne ==
  /\ pc = "image"
  /\ img_index' = img_index + 1
  /\ \E saved \in BOOLEAN, analysed \in BOOLEAN :
       LET doc_id == todo[cur].stem
           image_path == export_image(doc_id, page_number, img_index', saved)
       IN /\ exportFailed' = IF image_path = NoPath
                             THEN exportFailed \cup {<<page_number, img_index'>>}
                             ELSE exportFailed
          /\ IF Described(image_path, vision_analyzer)
             THEN IF analysed
                  THEN /\ image_metadata' =
                            Append(image_metadata, Descriptor(doc_id, page_number, image_path))
                       /\ pc' = IF img_index' < Images(dir[todo[cur]], page_number)
                                THEN "image" ELSE "page"
                       /\ UNCHANGED <<failedStep, clean>>
                  ELSE /\ Raise("vision")
                       /\ UNCHANGED image_metadata
             ELSE /\ analysed
                  /\ pc' = IF img_index' < Images(dir[todo[cur]], page_number)
                           THEN "image" ELSE "page"
                  /\ UNCHANGED <<image_metadata, failedStep, clean>>
  /\ UNCHANGED <<pageFrame, chunks, page_number, text_pages>>

\* The page loop is over: chunk_iterable(text_pages); `if not chunks: return`.
ChunkDocument ==
  /\ pc = "page"
  /\ page_number = NPages(dir[todo[cur]])
  /\ chunks' = ChunkPages(dir[todo[cur]], text_pages)
  /\ pc' = IF chunks' = <<>> THEN "finish" ELSE "embed"
  /\ UNCHANGED <<pageFrame, imaging, failedStep, clean>>

NextImages ==
  \/ StartRun
  \/ Visit
  \/ OpenDocument
  \/ ReadPage
  \/ ExportOne
  \/ ChunkDocument
  \/ Embed
  \/ UpsertBatch
  \/ MetaWrite
  \/ Finish
  \/ EndRun

SpecImages == InitImages /\ [][NextImages]_vars

\* ------------------------------------------- the sparse mapping on its own
\* _map_sparse_tokens called once on one dict; no ingestion run is going on.
InitSparse ==
  /\ IngestionInit
  /\ dir = EmptyMap
  /\ batch_size = 1
  /\ ExtractionIdle
  /\ ServingIdle
  /\ ImagingIdle
  /\ sparse \in SparseDicts
  /\ sparse_values = NotCalled
  /\ PairIdle
  /\ ConversationIdle
  /\ OrchestratorIdle

MapTokens ==
  /\ sparse_values = NotCalled
  /\ sparse_values' = MapSparseTokens(sparse)
  /\ UNCHANGED <<ingestion, extraction, serving, imaging, pair, conversation,
               orchestration, sparse>>

NextSparse == MapTokens

SpecSparse == InitSparse /\ [][NextSparse]_vars

\* ------------------------------------------ two controllers, one checkpoint
\* Two processes run `python -m src.ingestion` over the same root with the
\* same state file.  Each holds its own StateTracker; the file and the tree
\* are shared.  A step is one statement of the loop of ingest().
InitTwo ==
  /\ IngestionInit
  /\ Cardinality(DOMAIN dir) \in {1, 2}
  /\ batch_size = 1
  /\ ExtractionIdle
  /\ ServingIdle
  /\ ImagingIdle
  /\ HashingIdle
  /\ PairIdle
  /\ ConversationIdle
  /\ OrchestratorIdle

\* What the two controllers leave alone.
pairFrame ==
  <<dir, batch_size, vstore, docstore, pc, locals, history, extraction, serving,
    imaging, hashing, conversation, orchestration>>

\* IngestionPipeline.__init__: StateTracker.load, then the enumeration.
Launch(c) ==
  /\ workers[c].pc = "idle"
  /\ file # Torn
  /\ workers' = [workers EXCEPT ![c] = [@ EXCEPT !.pc = "iter", !.state = Load(file),
                                                 !.cur = 1]]
  /\ UNCHANGED <<pairFrame, file>>

\* The loop body up to the call of _process_pdf, on the controller's own map.
Claim(c) ==
  LET w == workers[c]
      todo_c == Sorted(DOMAIN dir)
  IN /\ w.pc = "iter"
     /\ w.cur <= Len(todo_c)
     /\ LET p == todo_c[w.cur]
            d == PathDigest(p, dir[p])
        IN IF ShouldSkip(StatusOf(w.state, d))
           THEN /\ workers' = [workers EXCEPT ![c] = [@ EXCEPT !.cur = w.cur + 1,
                                                              !.digest = d]]
                /\ UNCHANGED file
           ELSE /\ workers' = [workers EXCEPT ![c] =
                                [@ EXCEPT !.pc = "process", !.digest = d,
                                          !.state = Mark(w.state, d, InFlightStatus,
                                                         FileName(p)).state]]
                /\ file' = Mark(w.state, d, InFlightStatus, FileName(p)).file
     /\ UNCHANGED pairFrame

\* _process_pdf as one step: it returns or raises.
Process(c) ==
  /\ workers[c].pc = "process"
  /\ \E ok \in BOOLEAN :
       workers' = [workers EXCEPT ![c] =
                     [@ EXCEPT !.pc = IF ok /\ ~Corrupt(dir[Sorted(DOMAIN dir)[workers[c].cur]])
                                      THEN "finish" ELSE "aborted"]]
  /\ UNCHANGED <<pairFrame, file>>

\* state.mark(digest, "completed", ...): the controller's whole map goes to
\* the file.
Complete(c) ==
  LET w == workers[c]
      p == Sorted(DOMAIN dir)[w.cur]
  IN /\ w.pc = "finish"
     /\ workers' = [workers EXCEPT ![c] =
                      [@ EXCEPT !.pc = "iter", !.cur = w.cur + 1,
                                !.state = Mark(w.state, w.digest, "completed",
                                               FileName(p)).state]]
     /\ file' = Mark(w.state, w.digest, "completed", FileName(p)).file
     /\ UNCHANGED pairFrame

NextTwo ==
  \/ \E c \in Controllers : Launch(c)
  \/ \E c \in Controllers : Claim(c)
  \/ \E c \in Controllers : Process(c)
  \/ \E c \in Controllers : Complete(c)

SpecTwo == InitTwo /\ [][NextTwo]_vars

\* ------------------------------------------ the conversation memory in use
\* append() and fetch() calls on one ConversationMemory while Supabase goes
\* away and comes back.  The process is not restarted.
InitMemory ==
  /\ IngestionInit
  /\ dir = EmptyMap
  /\ batch_size = 1
  /\ ExtractionIdle
  /\ ServingIdle
  /\ ImagingIdle
  /\ HashingIdle
  /\ PairIdle
  /\ messages = <<>>
  /\ local_memory_store = [s \in Sessions |-> <<>>]
  /\ supabase_up \in BOOLEAN
  /\ window \in 1..MaxWindow
  /\ appended = [s \in Sessions |-> <<>>]
  /\ fetched = NotFetched
  /\ OrchestratorIdle

memoryFrame ==
  <<ingestion, extraction, serving, imaging, hashing, pair, window, orchestration>>

Appends == Len(appended["s1"]) + Len(appended["s2"])

\* ConversationMemory.append: insert, or the local store when the insert
\* raises.  Message contents are numbered; roles alternate.
MemoryAppend(s) ==
  /\ Appends < MaxAppends
  /\ LET payload == Payload(s, IF Appends % 2 = 0 THEN "user" ELSE "assistant",
                            Appends + 1)
     IN /\ IF supabase_up
           THEN /\ messages' = Insert(messages, payload)
                /\ UNCHANGED local_memory_store
           ELSE /\ local_memory_store' = AppendLocal(local_memory_store, payload)
                /\ UNCHANGED messages
        /\ appended' = [appended EXCEPT ![s] = Append(@, Entry(payload))]
  /\ UNCHANGED <<memoryFrame, supabase_up, fetched>>

\* ConversationMemory.fetch: the select, or the local store when it raises.
MemoryFetch(s) ==
  /\ fetched' = [ called |-> TRUE, session |-> s, stored |-> appended[s],
                  result |-> IF supabase_up THEN Select(messages, s, window)
                             ELSE FetchLocal(local_memory_store, s, window) ]
  /\ UNCHANGED <<memoryFrame, messages, local_memory_store, supabase_up, appended>>

SupabaseFails ==
  /\ supabase_up
  /\ supabase_up' = FALSE
  /\ UNCHANGED <<memoryFrame, messages, local_memory_store, appended, fetched>>

SupabaseRecovers ==
  /\ ~supabase_up
  /\ supabase_up' = TRUE
  /\ UNCHANGED <<memoryFrame, messages, local_memory_store, appended, fetched>>

NextMemory ==
  \/ \E s \in Sessions : MemoryAppend(s)
  \/ \E s \in Sessions : MemoryFetch(s)
  \/ SupabaseFails
  \/ SupabaseRecovers

SpecMemory == InitMemory /\ [][NextMemory]_vars

\* ------------------------------------------------ the orchestrator's turns
\* Two run() calls on one event loop, the application as _build_agent left
\* it, Supabase going away and coming back.  A call gives up the loop at its
\* awaits: retrieve, _should_search, route, ainvoke.
InitRun ==
  /\ IngestionInit
  /\ dir = EmptyMap
  /\ batch_size = 1
  /\ ExtractionIdle
  /\ ImagingIdle
  /\ HashingIdle
  /\ PairIdle
  /\ reachable = TRUE
  /\ relevance = EmptyMap
  /\ turns = [c \in CallIds |-> IdleCall]
  /\ \/ /\ retrieval = "none"
        /\ pinecone_api_key \in BOOLEAN
        /\ top_k = 0
        /\ query_namespace = "none"
     \/ /\ retrieval = "pipeline"
        /\ pinecone_api_key = TRUE
        /\ top_k \in 1..MaxK
        /\ query_namespace = QueryNamespace
  /\ messages = <<>>
  /\ local_memory_store = [s \in Sessions |-> <<>>]
  /\ supabase_up \in BOOLEAN
  /\ window = 1
  /\ appended = [s \in Sessions |-> <<>>]
  /\ fetched = NotFetched
  /\ OrchestratorIdle

runFrame == <<ingestion, extraction, serving, imaging, hashing, pair, window>>

\* Requests are numbered in the order they arrive.
Begun(c) == \A o \in Requests : o < c => chats[o].pc # "idle"

\* run() up to its first await: the session id, the history, the metadata.
RunBegin(c) ==
  /\ chats[c].pc = "idle"
  /\ Begun(c)
  /\ \E s \in Sessions : \E flag \in BOOLEAN :
       chats' = [chats EXCEPT ![c] = [IdleChat EXCEPT !.pc = "retrieve", !.session_id = s,
                                                      !.requires_search = flag]]
  /\ fetched' = [ called |-> TRUE, session |-> chats'[c].session_id,
                  stored |-> appended[chats'[c].session_id],
                  result |-> IF supabase_up
                             THEN Select(messages, chats'[c].session_id, window)
                             ELSE FetchLocal(local_memory_store, chats'[c].session_id,
                                             window) ]
  /\ UNCHANGED <<runFrame, messages, local_memory_store, supabase_up, appended>>

\* retrieve() returns or raises; without a pipeline the list is empty.
RunRetrieve(c) ==
  /\ chats[c].pc = "retrieve"
  /\ IF retrieval = "pipeline"
     THEN \/ chats' = [chats EXCEPT ![c].pc = "failed", ![c].failed = "retrieval"]
          \/ \E n \in 0..top_k :
               chats' = [chats EXCEPT ![c].pc = "decide", ![c].retrieved_chunks = n]
     ELSE chats' = [chats EXCEPT ![c].pc = "decide", ![c].retrieved_chunks = 0]
  /\ UNCHANGED <<runFrame, conversation>>

\* The fallback logic; _should_search answers by model or by keywords and
\* does not raise.
RunDecide(c) ==
  /\ chats[c].pc = "decide"
  /\ \E classified \in BOOLEAN :
       LET should == ShouldSearch(chats[c].requires_search, chats[c].retrieved_chunks,
                                  classified)
       IN chats' = [chats EXCEPT ![c].should_search = should,
                                 ![c].pc = IF should THEN "search" ELSE "model"]
  /\ UNCHANGED <<runFrame, conversation>>

\* tools.route(message, {"requires_search": True}): the search returns or
\* raises.
RunSearch(c) ==
  /\ chats[c].pc = "search"
  /\ LET tools == Route(FALSE, TRUE)
     IN \/ chats' = [chats EXCEPT ![c].invoked = tools, ![c].pc = "failed",
                                  ![c].failed = "search"]
        \/ chats' = [chats EXCEPT ![c].invoked = tools, ![c].tool_events = tools,
                                  ![c].pc = "model"]
  /\ UNCHANGED <<runFrame, conversation>>

\* model.ainvoke raises, or returns and run() appends the user message and
\* the assistant message and returns.
RunModel(c) ==
  /\ chats[c].pc = "model"
  /\ \/ /\ chats' = [chats EXCEPT ![c].pc = "failed", ![c].failed = "model"]
        /\ UNCHANGED conversation
     \/ LET s == chats[c].session_id
            user == Payload(s, "user", Question(c))
            assistant == Payload(s, "assistant", Reply(c))
            memory == Remember(Remember(<<messages, local_memory_store>>, supabase_up, user),
                               supabase_up, assistant)
        IN /\ messages' = memory[1]
           /\ local_memory_store' = memory[2]
           /\ appended' = [appended EXCEPT ![s] = @ \o <<Entry(user), Entry(assistant)>>]
           /\ chats' = [chats EXCEPT ![c].pc = "done"]
           /\ UNCHANGED <<supabase_up, window, fetched>>
  /\ UNCHANGED runFrame

NextRun ==
  \/ \E c \in Requests : RunBegin(c)
  \/ \E c \in Requests : RunRetrieve(c)
  \/ \E c \in Requests : RunDecide(c)
  \/ \E c \in Requests : RunSearch(c)
  \/ \E c \in Requests : RunModel(c)
  \/ SupabaseFails
  \/ SupabaseRecovers

SpecRun == InitRun /\ [][NextRun]_vars

\* ------------------------------------------------- the application serving
\* The index as some earlier ingestion left it, the application built by
\* _build_agent, chat turns that call retrieve(), and the Pinecone service
\* going away and coming back.
SamplePath == CHOOSE p \in AllPaths : Len(p.dirs) = 2

\* The cross-encoder's score of a stored chunk for a query.
CrossEncoderScore(q) ==
  [id \in DOMAIN relevance |-> IF q = "q1" THEN relevance[id] ELSE MaxScore - relevance[id]]

InitServe ==
  /\ IngestionIdle
  /\ ExtractionIdle
  /\ AsideIdle
  /\ dir = EmptyMap
  /\ batch_size = 1
  /\ \E b \in 1..NumContents : \E ns \in {Namespace, QueryNamespace} :
       vstore = Upsert(EmptyMap, ns, ToUpsert(SamplePath, chunk_iterable(b)))
  /\ relevance \in [{k[2] : k \in {x \in DOMAIN vstore : x[1] = QueryNamespace}} -> 0..MaxScore]
  /\ pinecone_api_key \in BOOLEAN
  /\ reachable = TRUE
  /\ retrieval = "unbuilt"
  /\ top_k = 0
  /\ query_namespace = "none"
  /\ turns = [c \in CallIds |-> IdleCall]

\* Call ids are handed out in the order the requests arrive.
Arrived(c) == \A o \in CallIds : o < c => turns[o].stage # "idle"

serveFrame ==
  <<dir, batch_size, file, docstore, pc, locals, history, extraction, aside>>

\* _build_agent: a RetrievalPipeline only if Pinecone is configured, and
\* none if its construction raises.  Whether construction contacts the
\* service is the library's business: with the service away it may raise
\* or not.
BuildAgent ==
  /\ retrieval = "unbuilt"
  /\ IF pinecone_api_key
     THEN \E k \in 1..MaxK : \E raised \in (IF reachable THEN {FALSE} ELSE BOOLEAN) :
            IF raised
            THEN /\ retrieval' = "none"
                 /\ UNCHANGED <<top_k, query_namespace>>
            ELSE /\ retrieval' = "pipeline"
                 /\ top_k' = k
                 /\ query_namespace' = QueryNamespace
     ELSE /\ retrieval' = "none"
          /\ UNCHANGED <<top_k, query_namespace>>
  /\ UNCHANGED <<serveFrame, vstore, pinecone_api_key, reachable, relevance, turns>>

\* AgentOrchestrator.run without a pipeline: retrieved_chunks = [].
TurnWithoutRetrieval(c) ==
  /\ retrieval = "none"
  /\ turns[c].stage = "idle"
  /\ Arrived(c)
  /\ \E q \in Queries :
       turns' = [turns EXCEPT ![c] = [IdleCall EXCEPT !.stage = "returned", !.query = q,
                                                      !.down = ~reachable]]
  /\ UNCHANGED <<serveFrame, vstore, pinecone_api_key, reachable, retrieval, top_k,
                 query_namespace, relevance>>

\* retrieve(): pipeline.run up to the retriever's answer.  With the
\* service away the retriever raises and the exception leaves retrieve().
Fetch(c) ==
  /\ retrieval = "pipeline"
  /\ turns[c].stage = "idle"
  /\ Arrived(c)
  /\ \E q \in Queries :
       IF reachable
       THEN LET docs == Retrieve(q, vstore, query_namespace, CandidateCount(top_k))
            IN /\ turns' = [turns EXCEPT ![c] =
                   [IdleCall EXCEPT !.stage = "fetched", !.query = q, !.candidates = docs,
                      !.overlapped = \E o \in CallIds \ {c} : turns[o].stage = "fetched"]]
               /\ vstore' = StoreAfterQuery(vstore, query_namespace, docs)
       ELSE /\ turns' = [turns EXCEPT ![c] =
                 [IdleCall EXCEPT !.stage = "error", !.query = q, !.down = TRUE]]
            /\ UNCHANGED vstore
  /\ UNCHANGED <<serveFrame, pinecone_api_key, reachable, retrieval, top_k,
                 query_namespace, relevance>>

\* The ranker's answer and `return [self._to_result(doc) for doc in documents]`.
RankAndReturn(c) ==
  /\ turns[c].stage = "fetched"
  /\ LET docs == Ranker(turns[c].candidates, CrossEncoderScore(turns[c].query),
                        RankerCount(top_k))
     IN turns' = [turns EXCEPT ![c].stage = "returned", ![c].documents = docs,
                               ![c].results = ToResults(docs),
                               ![c].overlapped = turns[c].overlapped \/
                                  \E o \in CallIds \ {c} : turns[o].stage = "fetched"]
  /\ UNCHANGED <<serveFrame, vstore, pinecone_api_key, reachable, retrieval, top_k,
                 query_namespace, relevance>>

\* The Pinecone service goes away or comes back.
Outage ==
  /\ reachable' = ~reachable
  /\ UNCHANGED <<serveFrame, vstore, pinecone_api_key, retrieval, top_k,
                 query_namespace, relevance, turns>>

NextServe ==
  \/ BuildAgent
  \/ \E c \in CallIds : TurnWithoutRetrieval(c)
  \/ \E c \in CallIds : Fetch(c)
  \/ \E c \in CallIds : RankAndReturn(c)
  \/ Outage

SpecServe == InitServe /\ [][NextServe]_vars

\* ----------------------------------------------------------- properties
\* The file the loop is at, and its digest as ingest() computes it.
AtFile == pc = "iter" /\ cur <= Len(todo)

HereDigest == Digest(dir[todo[cur]])

CeilDiv(n, b) == (n + b - 1) \div b

RECURSIVE Concat(_)
Concat(calls) ==
  IF calls = <<>> THEN <<>> ELSE Head(calls).vectors \o Concat(Tail(calls))

\* The content a digest was computed from.
ContentOf(d) == CHOOSE b \in Bytes : Digest(b) = d

\* The documents row and the vector-store records of the document a
\* checkpoint entry stands for.
HasRow(d) ==
  \E r \in docstore :
    r.document_id = Stem(state[d].filename) /\ r.filename = state[d].filename

HasChunks(d) ==
  LET cs == chunk_iterable(ContentOf(d))
  IN \A i \in 1..Len(cs) :
       /\ <<Namespace, <<Stem(state[d].filename), i - 1>>>> \in DOMAIN vstore
       /\ vstore[<<Namespace, <<Stem(state[d].filename), i - 1>>>>].metadata.text = cs[i]

\* C1: when the loop reaches a file whose digest is `completed` in the
\* checkpoint map, the step the controller takes only advances the loop:
\* the map, the checkpoint file, both stores and the embedding and upsert
\* counters stay as they are and no processing step is entered.
C1_SkipCompleted ==
  [][ (AtFile /\ StatusOf(state, HereDigest) = "completed")
        => /\ UNCHANGED <<state, file, vstore, docstore, embedCalls, upsertCount,
                          upsertCalls, attempted, metaOk>>
           /\ pc' \in {"iter", "crashed"}
           /\ pc' = "iter" => cur' = cur + 1 ]_vars

C1_Witness == pc = "iter" /\ skips # {} /\ vstore # EmptyMap

\* C2: while a document is being parsed, embedded, upserted or its metadata
\* written, its digest is `processing` in the in-memory map and in the
\* checkpoint file; after a kill in any of these steps the file still says
\* `processing` for that digest.
C2_ProcessingPersistedFirst ==
  /\ pc \in Work =>
       /\ StatusOf(state, digest) = "processing"
       /\ file.kind = "json"
       /\ StatusOf(file.data, digest) = "processing"
  /\ (pc = "crashed" /\ crashedIn \in Work) =>
       /\ file.kind = "json"
       /\ StatusOf(file.data, digest) = "processing"

C2_Witness == pc = "crashed" /\ crashedIn = "upsert" /\ start > 0

\* C3 (as claimed): a digest is `completed` only if the metadata write of its
\* document returned before, the document has its row in the metadata store
\* and every chunk of it is in the vector store.
C3_CompletedImpliesStored ==
  \A d \in DOMAIN state :
    state[d].status = "completed" => d \in metaOk /\ HasRow(d) /\ HasChunks(d)

\* C4 (as claimed): an exception in one document does not end the run: when
\* ingest() is over, every enumerated file was either skipped as completed
\* or marked `processing` and attempted.
C4_RunVisitsEveryDocument ==
  pc \in {"done", "aborted"} =>
    \A i \in 1..Len(todo) : todo[i] \in attempted \cup skips

\* C5: once a step of a document has raised, the entry of that document's
\* digest is not `completed`, in memory and in the checkpoint file, up to
\* the end of the run.
C5_FailedNotCompleted ==
  failedStep # "none" =>
    /\ StatusOf(state, digest) # "completed"
    /\ StatusOf(Load(file), digest) # "completed"

C5_Witness == pc = "aborted" /\ failedStep = "meta" /\ Len(upsertCalls) >= 2

\* C6 (as claimed): a document that cannot be parsed is recorded as `failed`
\* and the enumeration goes on.
C6_UnparseableMarkedFailed ==
  (failedStep = "parse" /\ Corrupt(dir[todo[cur]])) =>
    /\ StatusOf(state, digest) = "failed"
    /\ pc # "aborted"

\* C7 (as claimed): after a process was killed while processing a document,
\* a digest the next run loaded as `processing`, whose file is still in the
\* tree, is `completed` or `failed` when that run is over.
C7_RecoveredEndsTerminal ==
  (pc \in {"done", "aborted"} /\ crashedIn \in Work) =>
    \A d \in recovering :
      (\E p \in DOMAIN dir : Digest(dir[p]) = d)
        => StatusOf(state, d) \in {"completed", "failed"}

\* C8: after a first run in which nothing failed every file's digest is in
\* the map and every entry is `completed`; a following run makes no
\* embedding call and no upsert call and leaves the vector store, the map
\* and the checkpoint file as the first run left them.
C8_Idempotent ==
  /\ (clean /\ run = 1 /\ pc = "done") =>
       /\ snapshot.taken
       /\ \A p \in DOMAIN dir : Digest(dir[p]) \in DOMAIN state
       /\ \A d \in DOMAIN state : state[d].status = "completed"
  /\ (clean /\ run >= 2) =>
       /\ snapshot.taken
       /\ embedCalls = 0
       /\ upsertCount = 0
       /\ upsertCalls = <<>>
       /\ vstore = snapshot.vstore
       /\ state = snapshot.state
       /\ file = snapshot.file

C8_Witness == clean /\ run = 2 /\ pc = "done" /\ Cardinality(DOMAIN vstore) >= 3

\* C9: whenever the controller is between two steps of a run, the
\* checkpoint file holds exactly the in-memory map, and a load after a kill
\* in a processing step returns the map the process held.
C9_FileEqualsMemory ==
  /\ pc \in Running => Load(file) = state
  /\ pc \in Work => file = Dumps(state)
  /\ (pc = "crashed" /\ crashedIn \in Work) => Load(file) = state

C9_Witness == pc = "upsert" /\ start > 0 /\ Cardinality(DOMAIN state) >= 2

\* C10: when the upsert loop over N records with batch size B is through, it
\* has issued ceil(N/B) calls, whose batches concatenated in call order are
\* the records in their order; each batch holds 1..B records, only the last
\* may hold fewer than B, and each call names the configured namespace.
\* While the loop runs, the calls so far cover the first `start` records.
C10_Batches ==
  LET n == Len(to_upsert)
      calls == upsertCalls
  IN /\ pc = "meta" =>
          /\ Len(calls) = CeilDiv(n, batch_size)
          /\ Concat(calls) = to_upsert
          /\ \A k \in 1..Len(calls) :
               /\ Len(calls[k].vectors) >= 1
               /\ Len(calls[k].vectors) <= batch_size
               /\ k < Len(calls) => Len(calls[k].vectors) = batch_size
               /\ calls[k].namespace = Namespace
     /\ pc = "upsert" =>
          /\ start < n
          /\ Concat(calls) = SubSeq(to_upsert, 1, start)

C10_Witness == pc = "meta" /\ Len(to_upsert) = 3 /\ batch_size = 2

\* C11: when an upsert batch of a document fails, the failing call is the
\* last upsert issued for the document, no metadata write is issued for it
\* in that run, every record of the batches before it is still in the
\* vector store, and the document is not `completed` in the map or the file.
C11_FailedBatchIsFatal ==
  failedStep = "upsert" =>
    /\ pc = "aborted"
    /\ Len(upsertCalls) = start \div batch_size + 1
    /\ todo[cur] \notin metaCalls
    /\ \A i \in 1..start :
         /\ <<Namespace, to_upsert[i].id>> \in DOMAIN vstore
         /\ vstore[<<Namespace, to_upsert[i].id>>] = to_upsert[i]
    /\ StatusOf(state, digest) # "completed"
    /\ StatusOf(Load(file), digest) # "completed"

C11_Witness ==
  failedStep = "upsert" /\ pc = "aborted" /\ start >= 2 /\ batch_size = 1

\* The vector store one failure-free run over the directory leaves: the
\* files in enumeration order, a file whose bytes were already seen
\* skipped, every record written under its id.
RECURSIVE Overwrite(_, _, _)
Overwrite(vs, ns, recs) ==
  IF recs = <<>> THEN vs
  ELSE LET r == Head(recs)
           one == [k \in DOMAIN vs \cup {<<ns, r.id>>} |->
                     IF k = <<ns, r.id>> THEN r ELSE vs[k]]
       IN Overwrite(one, ns, Tail(recs))

RECURSIVE CleanRun(_, _, _)
CleanRun(paths, seen, vs) ==
  IF paths = <<>> THEN vs
  ELSE LET q == Head(paths)
       IN IF dir[q] \in seen
          THEN CleanRun(Tail(paths), seen, vs)
          ELSE CleanRun(Tail(paths), seen \cup {dir[q]},
                        Overwrite(vs, Namespace, ToUpsert(q, chunk_iterable(dir[q]))))

CleanRunStore == CleanRun(Sorted(DOMAIN dir), {}, EmptyMap)

\* C12: a document whose upsert loop once stopped after its first batch and
\* that is processed again has, when its loop ends, one record per chunk
\* under the ids {stem}-{index}, no two under one id, and the store holds
\* no id a failure-free run would not hold; and when the run that
\* re-processed it ends, the vector store equals the store of one
\* failure-free run: nothing missing, nothing extra, nothing duplicated.
C12_RetryOverwrites ==
  /\ (pc = "meta" /\ digest \in partial) =>
       /\ \A i \in 1..Len(to_upsert) :
            /\ to_upsert[i].id = <<todo[cur].stem, i - 1>>
            /\ vstore[<<Namespace, to_upsert[i].id>>] = to_upsert[i]
       /\ Cardinality({to_upsert[i].id : i \in 1..Len(to_upsert)}) = Len(to_upsert)
       /\ DOMAIN vstore \subseteq DOMAIN CleanRunStore
  /\ (pc = "done" /\ partial # {}) => vstore = CleanRunStore

C12_Witness ==
  /\ pc = "done" /\ run = 2
  /\ \E q \in DOMAIN dir : Digest(dir[q]) \in partial /\ q \in attempted

\* C16: two files with the same bytes have the same checkpoint key, and in
\* one run a file is processed only if no file before it in enumeration
\* order holds the same bytes; a later file with the same bytes that the
\* loop has passed was skipped.
C16_DigestOfBytesOnly ==
  /\ \A q1, q2 \in DOMAIN dir :
       dir[q1] = dir[q2] => PathDigest(q1, dir[q1]) = PathDigest(q2, dir[q2])
  /\ \A j \in 1..Len(todo) :
       (\E i \in 1..(j - 1) : dir[todo[i]] = dir[todo[j]]) =>
         /\ todo[j] \notin attempted
         /\ (j < cur => todo[j] \in skips)

C16_Witness ==
  /\ pc = "done"
  /\ \E i, j \in 1..Len(todo) :
       i < j /\ dir[todo[i]] = dir[todo[j]] /\ todo[i].stem # todo[j].stem
       /\ todo[i] \in attempted /\ todo[j] \in skips

\* The labels of a file by its directories alone.
LabelsByDirs(p) ==
  IF Len(p.dirs) >= 2
  THEN [appliance_type |-> p.dirs[1], brand |-> p.dirs[2]]
  ELSE [appliance_type |-> "unknown", brand |-> "unknown"]

\* C17: every record built for a file carries the first two directories
\* below the root as appliance_type and brand, and "unknown" for both when
\* the file has fewer than two directories above it.
C17_LabelsFromDirectories ==
  pc \in {"upsert", "meta"} =>
    \A i \in 1..Len(to_upsert) :
      /\ to_upsert[i].metadata.appliance_type = LabelsByDirs(todo[cur]).appliance_type
      /\ to_upsert[i].metadata.brand = LabelsByDirs(todo[cur]).brand

\* C18: the chunks of the file being processed are its pages' splits in
\* page order and, within a page, in split order, each split exactly once;
\* chunk_index numbers them from 0 in that order; so a document processed
\* again gets the same sequence.
C18_ChunkOrder ==
  pc \in {"embed", "upsert", "meta"} =>
    LET b == dir[todo[cur]]
    IN /\ \A i \in 1..Len(chunks) :
            /\ chunks[i][1] = b
            /\ chunks[i][2] \in 1..NPages(b)
            /\ chunks[i][3] \in 1..SplitCount(b, chunks[i][2])
       /\ \A i, j \in 1..Len(chunks) :
            i < j => \/ chunks[i][2] < chunks[j][2]
                     \/ chunks[i][2] = chunks[j][2] /\ chunks[i][3] < chunks[j][3]
       /\ \A pg \in 1..NPages(b) : \A k \in 1..SplitCount(b, pg) :
            \E i \in 1..Len(chunks) : chunks[i] = <<b, pg, k>>
       /\ pc # "embed" =>
            /\ Len(to_upsert) = Len(chunks)
            /\ \A i \in 1..Len(chunks) :
                 /\ to_upsert[i].metadata.chunk_index = i - 1
                 /\ to_upsert[i].metadata.text = chunks[i]

C18_Witness ==
  /\ pc = "meta" /\ run = 2 /\ Len(chunks) = 3
  /\ digest \in partial

\* A string of the shape the pattern describes.
HasShape(w, pat) ==
  \E n1 \in 1..Len(w) : \E h \in pat.hyphens :
    /\ n1 \in pat.counts1
    /\ Len(w) - n1 - h \in pat.counts2
    /\ \A i \in 1..n1 : w[i] \in pat.first
    /\ h = 1 => w[n1 + 1] = "-"
    /\ \A i \in (n1 + h + 1)..Len(w) : w[i] \in pat.second

\* out lists, in strictly ascending order, the distinct members of matches,
\* each a piece of the text between two word boundaries with the pattern's
\* shape.
DistinctSorted(out, matches, pat) ==
  /\ \A i, j \in 1..Len(out) : i < j => StrLess(out[i], out[j])
  /\ {out[i] : i \in 1..Len(out)} = {matches[i] : i \in 1..Len(matches)}
  /\ \A i \in 1..Len(out) :
       /\ HasShape(out[i], pat)
       /\ \E s \in 1..Len(text) :
            /\ s + Len(out[i]) - 1 <= Len(text)
            /\ Substring(text, s, Len(out[i])) = out[i]
            /\ Boundary(text, s)
            /\ Boundary(text, s + Len(out[i]))

\* C19: each extractor returns its pattern's distinct matches in strictly
\* ascending order, so without duplicates, and what one returns is the
\* same whether or not the other has been called.
C19_DistinctSorted ==
  /\ "part" \in extracted =>
       DistinctSorted(part_numbers, FindAll(text, 1, PART_NUMBER_RE), PART_NUMBER_RE)
  /\ "model" \in extracted =>
       DistinctSorted(model_numbers, FindAll(text, 1, MODEL_RE), MODEL_RE)
  /\ "part" \notin extracted => part_numbers = <<>>
  /\ "model" \notin extracted => model_numbers = <<>>

C19_Witness ==
  /\ extracted = {"part", "model"}
  /\ LET found == FindAll(text, 1, PART_NUMBER_RE)
     IN /\ \E i, j \in 1..Len(found) : i < j /\ found[i] = found[j]
        /\ \E i, j \in 1..Len(found) : i < j /\ StrLess(found[j], found[i])
  /\ Len(model_numbers) >= 2
  /\ model_numbers # part_numbers

\* The two phrases of the vocabulary and the literal each one ends with.
PartPhrase == Vocabulary[1]

ModelPhrase == Vocabulary[2]

PartLiteral == SubSeq(PartPhrase, 6, Len(PartPhrase))

ModelLiteral == SubSeq(ModelPhrase, 7, Len(ModelPhrase))

Holds(phrase) ==
  \E s \in 1..Len(text) :
    /\ s + Len(phrase) - 1 <= Len(text)
    /\ Substring(text, s, Len(phrase)) = phrase

\* C20: for a text that holds "Part WR-60X10074" and "Model ABC-123/DEF",
\* WR-60X10074 is among the part numbers returned and ABC-123/DEF among
\* the model numbers returned.
C20_LiteralSubstrings ==
  (extracted = {"part", "model"} /\ Holds(PartPhrase) /\ Holds(ModelPhrase)) =>
    /\ \E i \in 1..Len(part_numbers) : part_numbers[i] = PartLiteral
    /\ \E i \in 1..Len(model_numbers) : model_numbers[i] = ModelLiteral

\* Position of the document with this id in a sequence of documents.
Pos(docs, id) == CHOOSE i \in 1..Len(docs) : docs[i].id = id

Min(a, b) == IF a < b THEN a ELSE b

\* d1 goes before d2: higher rerank score, or the same score and earlier
\* among the candidates.
Before(t, id1, id2) ==
  LET sc == CrossEncoderScore(t.query)
  IN \/ sc[id1] > sc[id2]
     \/ sc[id1] = sc[id2] /\ Pos(t.candidates, id1) < Pos(t.candidates, id2)

\* C13: a retrieve() call fetches at most 2 * top_k candidates, all
\* different records of the pipeline's namespace; it returns
\* min(top_k, candidates) documents, all candidates, each carrying its
\* rerank score, ordered by rerank score descending with equal scores in
\* candidate order, and no candidate left out ranks before a returned one;
\* the results are those documents in that order.
C13_TwoStageRanking ==
  \A c \in CallIds :
    LET t == turns[c]
        cs == t.candidates
        ds == t.documents
    IN /\ t.stage \in {"fetched", "returned"} /\ retrieval = "pipeline" =>
            /\ Len(cs) <= 2 * top_k
            /\ \A i \in 1..Len(cs) : <<query_namespace, cs[i].id>> \in DOMAIN vstore
            /\ \A i, j \in 1..Len(cs) : i # j => cs[i].id # cs[j].id
       /\ t.stage = "returned" /\ retrieval = "pipeline" =>
            /\ Len(ds) = Min(top_k, Len(cs))
            /\ \A i \in 1..Len(ds) :
                 /\ \E j \in 1..Len(cs) : cs[j].id = ds[i].id /\ cs[j].meta = ds[i].meta
                 /\ ds[i].score = CrossEncoderScore(t.query)[ds[i].id]
            /\ \A i, j \in 1..Len(ds) : i < j => Before(t, ds[i].id, ds[j].id)
            /\ \A j \in 1..Len(cs) :
                 (\A i \in 1..Len(ds) : ds[i].id # cs[j].id) =>
                   \A i \in 1..Len(ds) : Before(t, ds[i].id, cs[j].id)
            /\ Len(t.results) = Len(ds)
            /\ \A i \in 1..Len(ds) :
                 /\ t.results[i].document_id = ds[i].meta.document_id
                 /\ t.results[i].score = ds[i].score

\* A call that returned fewer documents than it fetched, two of them with
\* the same rerank score, the first not the nearest candidate.
C13_Witness ==
  \E c \in CallIds :
    /\ turns[c].stage = "returned"
    /\ Len(turns[c].documents) = top_k
    /\ Len(turns[c].documents) < Len(turns[c].candidates)
    /\ \E i, j \in 1..Len(turns[c].documents) :
         i < j /\ turns[c].documents[i].score = turns[c].documents[j].score
    /\ turns[c].documents[1].id # turns[c].candidates[1].id

\* C14: a chat turn whose retrieval step ran while the vector store could
\* not be reached ends in an error, never with a result; and a turn that
\* ends in an error met an unreachable store.
C14_UnavailableIsAnError ==
  \A c \in CallIds :
    /\ turns[c].stage = "returned" => ~turns[c].down
    /\ turns[c].stage = "error" => turns[c].down

\* What a call with query q returns when it is the only one.
Alone(q) ==
  Ranker(Retrieve(q, vstore, query_namespace, CandidateCount(top_k)),
         CrossEncoderScore(q), RankerCount(top_k))

C22_OneAtATime ==
  pc \in Running =>
    /\ \A j \in 1..(cur - 1) :
         StatusOf(Load(file), PathDigest(todo[j], dir[todo[j]])) = "completed"
    /\ pc \in {"embed", "upsert", "meta"} =>
         chunks = chunk_iterable(dir[todo[cur]])
    /\ pc \in {"upsert", "meta"} =>
         /\ to_upsert = ToUpsert(todo[cur], chunks)
         /\ \A i \in 1..Len(upsertCalls) : \A r \in 1..Len(upsertCalls[i].vectors) :
              \E k \in 1..Len(to_upsert) : upsertCalls[i].vectors[r] = to_upsert[k]

\* The second file of a run is being upserted after the first one was
\* processed in the same run.
C22_Witness ==
  /\ pc = "upsert"
  /\ start > 0
  /\ cur >= 2
  /\ todo[cur - 1] \in attempted

\* C23: when the upsert loop of a document with n >= 1 chunks is through,
\* the upsert calls carried n records; record i (0-based) has the id
\* (document_id, i) and chunk_index i, and the dense and the sparse vector
\* computed from chunk i; the ids are pairwise distinct, and each record is
\* in the vector store under its id.
C23_RecordPerChunk ==
  (pc \in {"meta", "finish"} /\ chunks # <<>>) =>
    LET recs == Concat(upsertCalls)
        n == Len(chunks)
    IN /\ Len(recs) = n
       /\ \A i \in 1..n :
            /\ recs[i].id = <<Stem(FileName(todo[cur])), i - 1>>
            /\ recs[i].metadata.chunk_index = i - 1
            /\ recs[i].values = <<"dense", chunks[i]>>
            /\ recs[i].sparse_values = <<"sparse", chunks[i]>>
            /\ <<Namespace, recs[i].id>> \in DOMAIN vstore
            /\ vstore[<<Namespace, recs[i].id>>] = recs[i]
       /\ \A i, j \in 1..n : recs[i].id = recs[j].id => i = j

\* A document of three chunks went through in three calls and its row was
\* written.
C23_Witness ==
  /\ pc = "finish"
  /\ Len(chunks) = 3
  /\ batch_size = 1
  /\ todo[cur] \in metaCalls

\* The names of the files of the tree whose bytes have digest d.
NamesOf(d) == {FileName(p) : p \in {q \in DOMAIN dir : PathDigest(q, dir[q]) = d}}

WellFormed(st) ==
  \A d \in DOMAIN st :
    /\ DOMAIN st[d] = {"status", "filename"}
    /\ st[d].status \in {"processing", "completed", "failed"}
    /\ st[d].filename \in NamesOf(d)
    /\ d \in marked

\* C25: in the map of the running process and in the map the checkpoint
\* file holds, every entry has a status among processing, completed, failed
\* and the name of a file with that digest; a digest no process has marked
\* has no entry.
C25_ClosedStatusSet ==
  /\ WellFormed(state)
  /\ WellFormed(Load(file))
  /\ \A b \in Bytes : Digest(b) \notin marked =>
       /\ StatusOf(state, Digest(b)) = "none"
       /\ StatusOf(Load(file), Digest(b)) = "none"

\* One entry `completed`, one `processing`, and a file of the tree not yet
\* marked.
C25_Witness ==
  /\ pc = "parse"
  /\ \E d \in DOMAIN state : state[d].status = "completed"
  /\ state[digest].status = "processing"
  /\ \E p \in DOMAIN dir : Digest(dir[p]) \notin marked

\* C26 (as claimed): a digest that is `completed` in the checkpoint file is
\* `completed` in the file after every step, and a step changes the entry
\* of at most the digest it marks.
C26_CompletedAbsorbing ==
  [][\A b \in Bytes :
       /\ StatusOf(Load(file), Digest(b)) = "completed"
            => StatusOf(Load(file'), Digest(b)) = "completed"
       /\ (Digest(b) \in DOMAIN Load(file) /\ Digest(b) # digest')
            => /\ Digest(b) \in DOMAIN Load(file')
               /\ Load(file')[Digest(b)] = Load(file)[Digest(b)]]_vars

\* The content of the file a stored record was computed from.
Origin(rec) == rec.metadata.text[1]

\* C27 (as claimed): an upsert replaces a stored record only by a record of
\* the same content, so no record of a document is overwritten by a chunk
\* of a document with another digest.
C27_DisjointIds ==
  [][\A k \in DOMAIN vstore :
       Digest(Origin(vstore'[k])) = Digest(Origin(vstore[k]))]_vars

\* The candidates a RetrievalPipeline with its default namespace gets for
\* query q when it asks for as many records as the index holds.
CandidatesFor(q) == Retrieve(q, vstore, QueryNamespace, Cardinality(DOMAIN vstore))

\* C28 (as claimed): every upsert call names the namespace the retrieval
\* pipeline queries, and right after a document with chunks was marked
\* `completed` some query gets one of its chunks as a candidate.
C28_SharedNamespace ==
  /\ \A i \in 1..Len(upsertCalls) : upsertCalls[i].namespace = QueryNamespace
  /\ (pc = "iter" /\ cur > 1 /\ todo[cur - 1] \in metaCalls) =>
       \E q \in Queries : \E i \in 1..Len(CandidatesFor(q)) :
         CandidatesFor(q)[i].meta.document_id = todo[cur - 1].stem

\* C29 (as claimed): right after a document was processed and marked
\* `completed`, the stored records with its document_id are those of its n
\* chunks, numbered 0 .. n-1, and no other.
C29_NoStaleChunks ==
  (pc = "iter" /\ cur > 1 /\ todo[cur - 1] \in attempted) =>
    LET p == todo[cur - 1]
        n == Len(chunk_iterable(dir[p]))
    IN {k[2] : k \in {x \in DOMAIN vstore : x[1] = Namespace /\ x[2][1] = p.stem}}
         = {<<p.stem, i>> : i \in 0..(n - 1)}

PageImages(p, n) == [i \in 1..n |-> <<p, i>>]

\* The images the loops have been through when the page loop is at `page`
\* and the image loop at `img`, in loop order.
RECURSIVE ImagesUpTo(_, _, _)
ImagesUpTo(b, page, img) ==
  IF page = 0 THEN <<>>
  ELSE ImagesUpTo(b, page - 1, Images(b, page - 1)) \o PageImages(page, img)

\* The descriptors of those of them whose export did not fail.
DescriptorsUpTo(p, page, img) ==
  LET Saved(x) == x \notin exportFailed
      kept == SelectSeq(ImagesUpTo(dir[p], page, img), Saved)
  IN IF vision_analyzer
     THEN [k \in 1..Len(kept) |->
             Descriptor(p.stem, kept[k][1],
                        export_image(p.stem, kept[k][1], kept[k][2], TRUE))]
     ELSE <<>>

\* C21: an export that returns None leaves the loop where it is, raises
\* nothing and keeps the page's text; inside the loop every page reached
\* has its text and every image passed whose export did not fail has its
\* descriptor, in order, and a failed one has none; after the loop all
\* pages and all other images are there, the chunks are those of the whole
\* document, and a document whose later steps returned is `completed`.
C21_ExportFailureTolerated ==
  /\ [](pc \in {"page", "image"} =>
          /\ text_pages = SubSeq(TextPages(dir[todo[cur]]), 1, page_number)
          /\ image_metadata = DescriptorsUpTo(todo[cur], page_number, img_index))
  /\ [](pc \in {"embed", "upsert", "meta", "finish"} =>
          LET b == dir[todo[cur]]
          IN /\ text_pages = TextPages(b)
             /\ chunks = chunk_iterable(b)
             /\ image_metadata = DescriptorsUpTo(todo[cur], NPages(b), Images(b, NPages(b))))
  /\ [](pc \in {"page", "image", "embed", "upsert", "meta", "finish"} =>
        \A k \in 1..Len(image_metadata) :
          /\ image_metadata[k].image_path # NoPath
          /\ \A x \in exportFailed :
               image_metadata[k].image_path # export_image(todo[cur].stem, x[1], x[2], TRUE))
  /\ []((pc = "iter" /\ cur > 1 /\ todo[cur - 1] \in attempted) =>
          StatusOf(Load(file), digest) = "completed")
  /\ [][exportFailed' # exportFailed /\ exportFailed' # {} =>
          /\ pc' \in {"page", "image"}
          /\ failedStep' = failedStep
          /\ text_pages' = text_pages
          /\ image_metadata' = image_metadata]_vars

\* A two-page document whose first image failed to export, whose later
\* images were described, and which is `completed` with its row written.
C21_Witness ==
  /\ pc = "iter"
  /\ cur = 2
  /\ <<1, 1>> \in exportFailed
  /\ Len(image_metadata) = 2
  /\ Len(text_pages) = 2
  /\ StatusOf(Load(file), digest) = "completed"
  /\ \E r \in docstore : r.images = image_metadata

\* zlib.crc32 of the UTF-8 bytes of the tokens of up to three characters,
\* as Python computes it.
Crc32Reference ==
  [t \in UNION {[1..n -> Alphabet] : n \in 1..3} |->
     CASE t = <<97>> -> <<59575, 48707>>
       [] t = <<233>> -> <<3588, 36158>>
       [] t = <<97, 97>> -> <<1930, 6615>>
       [] t = <<97, 233>> -> <<63881, 59332>>
       [] t = <<233, 97>> -> <<10712, 42853>>
       [] t = <<233, 233>> -> <<56520, 26586>>
       [] t = <<97, 97, 97>> -> <<61447, 29485>>
       [] t = <<97, 97, 233>> -> <<42006, 29100>>
       [] t = <<97, 233, 97>> -> <<29767, 12557>>
       [] t = <<97, 233, 233>> -> <<40956, 4390>>
       [] t = <<233, 97, 97>> -> <<54598, 62259>>
       [] t = <<233, 97, 233>> -> <<24124, 3407>>
       [] t = <<233, 233, 97>> -> <<36461, 19950>>
       [] t = <<233, 233, 233>> -> <<42501, 34968>>]

\* What C24 says of the result `out` of the call on dict `items`.
Mapped(items, out) ==
  LET m == Len(items)
  IN /\ DOMAIN out = {"indices", "values"}
     /\ Len(out.indices) = m
     /\ Len(out.values) = m
     /\ \A j \in 1..m :
          /\ out.indices[j] = crc32(Encode(items[j].token))
          /\ Len(items[j].token) <= 3 => out.indices[j] = Crc32Reference[items[j].token]
          /\ out.values[j] = items[j].weight
          /\ out.indices[j][1] \in 0..(Half - 1)
          /\ out.indices[j][2] \in 0..(Half - 1)

\* C24: for every dict of m terms the call has a result; indices and
\* values have length m; position j holds the CRC-32 of the j-th term's
\* UTF-8 bytes, which depends on that term alone and is the value zlib
\* gives, and the j-th term's weight; both halves of every index are 16-bit
\* numbers, so the index lies in 0 .. 2^32 - 1.
C24_SparseIndices ==
  IF sparse_values = NotCalled
  THEN LET out == MapSparseTokens(sparse)
       IN /\ Len(out.indices) = Len(out.values)
          /\ \A j \in 1..Len(out.indices) : out.indices[j][1] \in 0..(Half - 1)
  ELSE Mapped(sparse, sparse_values)

\* Two terms with different weights, one of them with a two-byte
\* character, have been mapped.
C24_Witness ==
  /\ sparse_values # NotCalled
  /\ Len(sparse) = 2
  /\ sparse[1].weight # sparse[2].weight
  /\ \E j \in 1..2 : 233 \in {sparse[j].token[i] : i \in 1..Len(sparse[j].token)}

\* Both controllers are inside _process_pdf for the same digest.
BothProcessing ==
  \E c1, c2 \in Controllers :
    /\ c1 # c2
    /\ workers[c1].pc = "process"
    /\ workers[c2].pc = "process"
    /\ workers[c1].digest = workers[c2].digest

\* C30 (as claimed): the two controllers are never both processing one
\* digest, and an entry that is `completed` in the checkpoint file is
\* `completed` in the file after every step of either controller.
C30_ControllersExclude ==
  /\ [](~BothProcessing)
  /\ [][\A b \in Bytes :
          StatusOf(Load(file), Digest(b)) = "completed"
            => StatusOf(Load(file'), Digest(b)) = "completed"]_vars

\* C31 (as claimed): what a fetch returns holds, in append order, the last
\* `window` entries appended to the session before it.
C31_NoMessageLost ==
  fetched.called =>
    LET want == LastN(fetched.stored, window)
        Wanted(entry) == \E i \in 1..Len(want) : want[i] = entry
    IN SelectSeq(fetched.result, Wanted) = want

\* The entries a store or log keeps of turn c.
OfTurn(entries, c) ==
  LET Mine(e) == e.content \in {Question(c), Reply(c)} IN SelectSeq(entries, Mine)

\* The entries of turn c that the table, then the local store, hold for
\* session s.
Kept(s, c) ==
  LET Mine(row) == row.conversation_id = s
      rows == SelectSeq(messages, Mine)
  IN OfTurn([i \in 1..Len(rows) |-> Entry(rows[i])], c) \o OfTurn(local_memory_store[s], c)

\* What a turn that returned has appended.
Spoken(c) ==
  << [role |-> "user", content |-> Question(c)],
     [role |-> "assistant", content |-> Reply(c)] >>

\* C32: a turn whose retrieval gave no chunks and that went past the search
\* step has invoked the web search; a turn that has not returned has put
\* nothing into the session memory, and one that returned has put there its
\* user message and then its assistant message, once each and next to each
\* other, in its session.
C32_SearchThenRemember ==
  \A c \in Requests :
    LET t == chats[c]
        kept == [s \in Sessions |-> Kept(s, c)]
    IN /\ ( /\ t.retrieved_chunks = 0
            /\ \/ t.pc \in {"model", "done"}
               \/ t.pc = "failed" /\ t.failed \in {"search", "model"} )
          => \E i \in 1..Len(t.invoked) : t.invoked[i] = "web_search"
       /\ t.pc # "done"
          => \A s \in Sessions : OfTurn(appended[s], c) = <<>> /\ kept[s] = <<>>
       /\ t.pc = "done"
          => /\ OfTurn(appended[t.session_id], c) = Spoken(c)
             /\ \E i \in 1..(Len(appended[t.session_id]) - 1) :
                  /\ appended[t.session_id][i].content = Question(c)
                  /\ appended[t.session_id][i + 1].content = Reply(c)
             /\ kept[t.session_id] = Spoken(c)
             /\ \A s \in Sessions \ {t.session_id} :
                  OfTurn(appended[s], c) = <<>> /\ kept[s] = <<>>

\* Without a pipeline one turn searched, answered and was remembered while
\* the other failed in the model call.
C32_Witness ==
  /\ retrieval = "none"
  /\ \E c, d \in Requests :
       /\ chats[c].pc = "done"
       /\ chats[c].invoked = <<"web_search">>
       /\ chats[d].pc = "failed"
       /\ chats[d].failed = "model"
       /\ chats[d].session_id = chats[c].session_id
       /\ Len(appended[chats[c].session_id]) = 2

====
